---- MODULE Spec2Model ----
(***************************************************************************)
(* Model of the attendance dashboard (App.tsx): the duration normalizer    *)
(* parseMinutes and the chart aggregations statusChartData and             *)
(* timeChartData.                                                          *)
(*                                                                         *)
(* A JavaScript string is a sequence of one-character strings.  The two    *)
(* characters "U1E96" and "U0331" stand for U+1E96 (latin small letter h   *)
(* with line below) and U+0331 (combining macron below), which have no     *)
(* ASCII spelling.                                                         *)
(***************************************************************************)
EXTENDS Integers, Sequences, FiniteSets, TLC

VARIABLES value, result, npc,
          source, acc, idx, statusChartData, timeChartData, apc,
          outputs,
          sessionToken, loading, error, dates, selectedDate,
          currentRecords, historyRecords,
          currentSearch, currentStatusFilter, currentNotifiedFilter,
          filteredCurrentRecords,
          requests, rejected, loads, signInPending, signOutPending,
          lastFailure, download

nvars == <<value, result, npc>>
avars == <<source, acc, idx, statusChartData, timeChartData, apc>>
\* The state of the App component (useState), the memoized filter result, and
\* the calls that are in flight.
appvars == <<sessionToken, loading, error, dates, selectedDate,
             currentRecords, historyRecords,
             currentSearch, currentStatusFilter, currentNotifiedFilter,
             filteredCurrentRecords,
             requests, rejected, loads, signInPending, signOutPending,
             lastFailure, download>>
vars == <<value, result, npc, source, acc, idx, statusChartData, timeChartData, apc,
          outputs, appvars>>

(***************************************************************************)
(* Bounds of the model.                                                    *)
(***************************************************************************)
MaxLen == 4          \* longest text handed to parseMinutes
MaxNumber == 2       \* numeric durations range over -MaxNumber..MaxNumber
MaxRecords == 2      \* longest record list handed to the aggregations
MaxRenders == 2      \* aggregations of the same list that are compared
MaxSessionLoads == 1 \* runs of the session effect in one behaviour
MaxDateLoads == 2    \* runs of the date effect in one behaviour

(***************************************************************************)
(* Characters.                                                             *)
(***************************************************************************)
Digits == {"0", "3"}
Whitespace == {" "}
Alphabet == {"0", "3", "h", "H", "m", " ", "a", "-", "U1E96"}

DigitVal(c) == IF c = "3" THEN 3 ELSE 0

\* String.prototype.toLowerCase, one character: every character of the
\* alphabet has a one-character lower-case form.
LowerChar(c) ==
  CASE c = "H" -> "h"
    [] c = "M" -> "m"
    [] c = "A" -> "a"
    [] c = "B" -> "b"
    [] c = "N" -> "n"
    [] c = "O" -> "o"
    [] OTHER -> c

\* String.prototype.toUpperCase, one character: U+1E96 has no one-character
\* upper-case form; Unicode SpecialCasing maps it to U+0048 U+0331.
UpperChar(c) ==
  CASE c = "h" -> <<"H">>
    [] c = "m" -> <<"M">>
    [] c = "a" -> <<"A">>
    [] c = "U1E96" -> <<"H", "U0331">>
    [] OTHER -> <<c>>

ToLowerCase(str) == [k \in 1..Len(str) |-> LowerChar(str[k])]

RECURSIVE ToUpperCase(_)
ToUpperCase(str) ==
  IF str = <<>> THEN <<>>
  ELSE UpperChar(Head(str)) \o ToUpperCase(Tail(str))

\* str.includes(c)
Includes(str, c) == \E k \in 1..Len(str) : str[k] = c

(***************************************************************************)
(* JavaScript values that parseMinutes handles.  A value is null, a number *)
(* or a string; a regular-expression group is a string or undefined; a     *)
(* result is a number, NaN, or a thrown TypeError.                         *)
(***************************************************************************)
JsNull == [t |-> "null", n |-> 0, str |-> <<>>]
JsUndefined == [t |-> "undefined", n |-> 0, str |-> <<>>]
JsNumber(n) == [t |-> "number", n |-> n, str |-> <<>>]
JsString(s) == [t |-> "string", n |-> 0, str |-> s]
NaN == [t |-> "NaN", n |-> 0, str |-> <<>>]
TypeError == [t |-> "TypeError", n |-> 0, str |-> <<>>]

\* a || 0
OrZero(a) ==
  IF a.t \in {"undefined", "null", "NaN"} \/ (a.t = "string" /\ a.str = <<>>)
        \/ (a.t = "number" /\ a.n = 0)
  THEN JsNumber(0)
  ELSE a

RECURSIVE DecimalValue(_)
DecimalValue(s) ==
  IF s = <<>> THEN 0
  ELSE 10 * DecimalValue(SubSeq(s, 1, Len(s) - 1)) + DigitVal(s[Len(s)])

RECURSIVE TrimLeft(_)
TrimLeft(s) ==
  IF s # <<>> /\ Head(s) \in Whitespace THEN TrimLeft(Tail(s)) ELSE s

RECURSIVE TrimRight(_)
TrimRight(s) ==
  IF s # <<>> /\ s[Len(s)] \in Whitespace
  THEN TrimRight(SubSeq(s, 1, Len(s) - 1))
  ELSE s

\* Number(a): undefined is NaN, null is 0, a string is trimmed and read as
\* an optionally signed decimal literal (the empty string is 0), anything
\* else in a string is NaN.
Number(a) ==
  CASE a.t = "number" -> a
    [] a.t = "null" -> JsNumber(0)
    [] a.t = "string" ->
         LET s == TrimRight(TrimLeft(a.str))
             body == IF s # <<>> /\ Head(s) = "-" THEN Tail(s) ELSE s
         IN IF s = <<>> THEN JsNumber(0)
            ELSE IF body # <<>> /\ \A k \in 1..Len(body) : body[k] \in Digits
            THEN JsNumber(IF Head(s) = "-" THEN 0 - DecimalValue(body)
                                          ELSE DecimalValue(body))
            ELSE NaN
    [] OTHER -> NaN

\* h * 60 + m on JavaScript numbers: NaN is absorbing.
Times(a, k) == IF a.t = "number" THEN JsNumber(a.n * k) ELSE NaN
Plus(a, b) == IF a.t = "number" /\ b.t = "number" THEN JsNumber(a.n + b.n) ELSE NaN

(***************************************************************************)
(* str.match(/(\d+)h\s*(\d+)?m?/)                                          *)
(***************************************************************************)
\* First index at or after k whose character is not in cls (Len+1 if none):
\* the end of a greedy run of cls starting at k.
RECURSIVE RunEnd(_, _, _)
RunEnd(str, k, cls) ==
  IF k <= Len(str) /\ str[k] \in cls THEN RunEnd(str, k + 1, cls) ELSE k

NoMatch == [found |-> FALSE, g1 |-> JsUndefined, g2 |-> JsUndefined]

\* The attempt that starts at index k.  \d+ takes the whole digit run (a
\* shorter one would have to be followed by "h" and is followed by a digit),
\* then "h", then \s*, (\d+)? and m? each take what they can: all three
\* accept the empty string, so the attempt never backtracks past "h".
MatchAt(str, k) ==
  LET e1 == RunEnd(str, k, Digits)
  IN IF e1 = k \/ e1 > Len(str) \/ str[e1] # "h" THEN NoMatch
     ELSE LET s == RunEnd(str, e1 + 1, Whitespace)
              e2 == RunEnd(str, s, Digits)
          IN [found |-> TRUE,
              g1 |-> JsString(SubSeq(str, k, e1 - 1)),
              g2 |-> IF e2 > s THEN JsString(SubSeq(str, s, e2 - 1))
                               ELSE JsUndefined]

\* The leftmost attempt that succeeds, or null.
RECURSIVE MatchFrom(_, _)
MatchFrom(str, k) ==
  IF k > Len(str) THEN NoMatch
  ELSE IF MatchAt(str, k).found THEN MatchAt(str, k)
  ELSE MatchFrom(str, k + 1)

HourMatch(str) == MatchFrom(str, 1)

\* Variant: the replace keeps the minus sign, /[^0-9-]/g.
StripNonDigits_KeepSign(str) == SelectSeq(str, LAMBDA c : c \in Digits \cup {"-"})

\* str.replace(/[^0-9]/g, "")
StripNonDigits(str) == SelectSeq(str, LAMBDA c : c \in Digits)

(***************************************************************************)
(* parseMinutes                                                            *)
(***************************************************************************)
\* Variant: without the "if (!match) return 0" guard, match[1] of null throws.
HourBranch_NoGuard(str) ==
  LET match == HourMatch(str)
  IN IF ~match.found THEN TypeError
     ELSE LET h == Number(OrZero(match.g1))
              m == Number(OrZero(match.g2))
          IN Plus(Times(h, 60), m)

\* Variant: an unmatched text with "h" falls back to digit stripping.
HourBranch_Fallback(str) ==
  LET match == HourMatch(str)
  IN IF ~match.found THEN Number(JsString(StripNonDigits(str)))
     ELSE LET h == Number(OrZero(match.g1))
              m == Number(OrZero(match.g2))
          IN Plus(Times(h, 60), m)

HourBranch(str) ==
  LET match == HourMatch(str)
  IN IF ~match.found THEN JsNumber(0)
     ELSE LET h == Number(OrZero(match.g1))
              m == Number(OrZero(match.g2))
          IN Plus(Times(h, 60), m)

\* Variant: parseInt(str, 10) instead of stripping: only a leading digit run
\* counts.
DigitBranch_ParseInt(str) ==
  LET lead == SubSeq(str, 1, RunEnd(str, 1, Digits) - 1)
  IN IF lead = <<>> THEN JsNumber(0) ELSE Number(JsString(lead))

DigitBranch(str) ==
  LET num == Number(JsString(StripNonDigits(str)))
  IN IF num.t = "NaN" THEN JsNumber(0) ELSE num

\* Variant: numbers are clamped, Math.max(0, value).
parseMinutes_Clamp(v) ==
  IF v.t \in {"null", "undefined"} THEN JsNumber(0)
  ELSE IF v.t = "number" THEN (IF v.n < 0 THEN JsNumber(0) ELSE v)
  ELSE LET str == ToLowerCase(v.str)
       IN IF Includes(str, "h") THEN HourBranch(str) ELSE DigitBranch(str)

\* Variant: the text is matched as it is, without toLowerCase().
parseMinutes_CaseSensitive(v) ==
  IF v.t \in {"null", "undefined"} THEN JsNumber(0)
  ELSE IF v.t = "number" THEN v
  ELSE LET str == v.str
       IN IF Includes(str, "h") THEN HourBranch(str) ELSE DigitBranch(str)

parseMinutes(v) ==
  IF v.t \in {"null", "undefined"} THEN JsNumber(0)
  ELSE IF v.t = "number" THEN v
  ELSE LET str == ToLowerCase(v.str)
       IN IF Includes(str, "h") THEN HourBranch(str) ELSE DigitBranch(str)

(***************************************************************************)
(* Inputs                                                                  *)
(***************************************************************************)
Texts == UNION {[1..n -> Alphabet] : n \in 0..MaxLen}
Numbers == (0 - MaxNumber)..MaxNumber
DurationValues ==
  {JsNull} \cup {JsNumber(n) : n \in Numbers} \cup {JsString(s) : s \in Texts}

NoResult == [t |-> "none", n |-> 0, str |-> <<>>]

\* null, for the state that holds a string or null.
NULL == "null"

\* The component as mounted, before any session: the useState initial values.
\* No call of downloadHistoryCsv has been made.
NoDownload == [pc |-> "idle", name |-> <<>>, content |-> <<>>]

AppIdle ==
  /\ sessionToken = NULL
  /\ loading = FALSE
  /\ error = NULL
  /\ lastFailure = NULL
  /\ download = NoDownload
  /\ dates = <<>>
  /\ selectedDate = NULL
  /\ currentRecords = <<>>
  /\ historyRecords = <<>>
  /\ currentSearch = <<>>
  /\ currentStatusFilter = "all"
  /\ currentNotifiedFilter = "all"
  /\ filteredCurrentRecords = <<>>
  /\ requests = {}
  /\ rejected = {}
  /\ loads = [session |-> 0, date |-> 0]
  /\ signInPending = FALSE
  /\ signOutPending = FALSE

(***************************************************************************)
(* The normalizer on its own: one call of parseMinutes on any input.       *)
(***************************************************************************)
AggIdle ==
  /\ source = <<>>
  /\ acc = [checkedIn |-> 0, checkedOut |-> 0, notified |-> 0]
  /\ idx = 0
  /\ statusChartData = <<>>
  /\ timeChartData = <<>>
  /\ apc = "idle"

NormInit ==
  /\ value \in DurationValues
  /\ result = NoResult
  /\ npc = "call"
  /\ AggIdle
  /\ outputs = <<>>
  /\ AppIdle

CallParseMinutes ==
  /\ npc = "call"
  /\ result' = parseMinutes(value)
  /\ npc' = "returned"
  /\ UNCHANGED <<value, source, acc, idx, statusChartData, timeChartData, apc>>
  /\ UNCHANGED <<outputs, appvars>>

NormNext == CallParseMinutes

SpecNormalize == NormInit /\ [][NormNext]_vars

(***************************************************************************)
(* The aggregations of one render: statusChartData reduces the source list *)
(* to three counters, timeChartData maps it to one point per record.       *)
(***************************************************************************)
Names == {"Ann", "Bo"}
\* The two statuses the code tests for, a status that differs from one of them
\* only in case, and an unrelated one (status is an open string).
Statuses == {"checked_in", "checked_out", "CHECKED_IN", "absent"}
TimeSpentValues == {JsNull, JsNumber(30), JsString(<<"3", "h", " ", "3", "m">>)}

AttendanceRecord ==
  [student_name : Names, status : Statuses, parent_notified : BOOLEAN,
   time_spent : TimeSpentValues]

RecordLists == UNION {[1..n -> AttendanceRecord] : n \in 0..MaxRecords}

\* Variant: a counter that does not start at 0.
InitialCounts_One == [checkedIn |-> 0, checkedOut |-> 0, notified |-> 1]

InitialCounts == [checkedIn |-> 0, checkedOut |-> 0, notified |-> 0]

\* Variant: the three tests chained with else-if.
ReduceCallback_ElseIf(a, row) ==
  IF row.status = "checked_in" THEN [a EXCEPT !.checkedIn = @ + 1]
  ELSE IF row.status = "checked_out" THEN [a EXCEPT !.checkedOut = @ + 1]
  ELSE IF row.parent_notified THEN [a EXCEPT !.notified = @ + 1]
  ELSE a

\* Variant: the second test written !== "checked_out".
ReduceCallback_NotEqual(a, row) ==
  LET a1 == IF row.status = "checked_in" THEN [a EXCEPT !.checkedIn = @ + 1] ELSE a
      a2 == IF row.status # "checked_out" THEN [a1 EXCEPT !.checkedOut = @ + 1] ELSE a1
  IN IF row.parent_notified THEN [a2 EXCEPT !.notified = @ + 1] ELSE a2

\* Variant: every record that is not checked in counts as checked out.
ReduceCallback_Else(a, row) ==
  LET a2 == IF row.status = "checked_in" THEN [a EXCEPT !.checkedIn = @ + 1]
            ELSE [a EXCEPT !.checkedOut = @ + 1]
  IN IF row.parent_notified THEN [a2 EXCEPT !.notified = @ + 1] ELSE a2

\* Variant: a checked_out record also takes one off the checked-in count,
\* never below zero.
ReduceCallback_Leave(a, row) ==
  LET a1 == IF row.status = "checked_in" THEN [a EXCEPT !.checkedIn = @ + 1] ELSE a
      a2 == IF row.status = "checked_out"
            THEN [a1 EXCEPT !.checkedOut = @ + 1,
                            !.checkedIn = IF @ > 0 THEN @ - 1 ELSE 0]
            ELSE a1
  IN IF row.parent_notified THEN [a2 EXCEPT !.notified = @ + 1] ELSE a2

\* The callback of source.reduce: three independent tests.
ReduceCallback(a, row) ==
  LET a1 == IF row.status = "checked_in" THEN [a EXCEPT !.checkedIn = @ + 1] ELSE a
      a2 == IF row.status = "checked_out" THEN [a1 EXCEPT !.checkedOut = @ + 1] ELSE a1
  IN IF row.parent_notified THEN [a2 EXCEPT !.notified = @ + 1] ELSE a2

\* The array statusChartData returns.
StatusChart(counts) ==
  << [name |-> "Checked In", value |-> counts.checkedIn],
     [name |-> "Checked Out", value |-> counts.checkedOut],
     [name |-> "Notified", value |-> counts.notified] >>

\* Variant: the duration is converted with Number() instead of parseMinutes.
MapCallback_Number(row) ==
  [name |-> row.student_name, minutes |-> Number(row.time_spent)]

\* The callback of source.map.
MapCallback(row) ==
  [name |-> row.student_name, minutes |-> parseMinutes(row.time_spent)]

NormIdle ==
  /\ value = JsNull
  /\ result = NoResult
  /\ npc = "idle"

AggInit ==
  /\ source \in RecordLists
  /\ acc = InitialCounts
  /\ idx = 0
  /\ statusChartData = <<>>
  /\ timeChartData = <<>>
  /\ apc = "reduce"
  /\ NormIdle
  /\ outputs = <<>>
  /\ AppIdle

\* One call of the reduce callback, on the next record.
ReduceStep ==
  /\ apc = "reduce"
  /\ idx < Len(source)
  /\ acc' = ReduceCallback(acc, source[idx + 1])
  /\ idx' = idx + 1
  /\ UNCHANGED <<source, statusChartData, timeChartData, apc, value, result, npc>>
  /\ UNCHANGED <<outputs, appvars>>

\* reduce is over: statusChartData returns its array, timeChartData starts.
ReduceReturn ==
  /\ apc = "reduce"
  /\ idx = Len(source)
  /\ statusChartData' = StatusChart(acc)
  /\ apc' = "map"
  /\ idx' = 0
  /\ UNCHANGED <<source, acc, timeChartData, value, result, npc>>
  /\ UNCHANGED <<outputs, appvars>>

\* One call of the map callback, on the next record.
MapStep ==
  /\ apc = "map"
  /\ idx < Len(source)
  /\ timeChartData' = Append(timeChartData, MapCallback(source[idx + 1]))
  /\ idx' = idx + 1
  /\ UNCHANGED <<source, acc, statusChartData, apc, value, result, npc>>
  /\ UNCHANGED <<outputs, appvars>>

\* map is over: timeChartData returns.
MapReturn ==
  /\ apc = "map"
  /\ idx = Len(source)
  /\ apc' = "done"
  /\ UNCHANGED <<source, acc, idx, statusChartData, timeChartData, value, result, npc>>
  /\ UNCHANGED <<outputs, appvars>>

AggNext == ReduceStep \/ ReduceReturn \/ MapStep \/ MapReturn

SpecAggregate == AggInit /\ [][AggNext]_vars

\* source.reduce(callback, initial) and source.map(callback) as whole calls.
RECURSIVE Reduce(_, _)
Reduce(list, a) ==
  IF list = <<>> THEN a ELSE Reduce(Tail(list), ReduceCallback(a, Head(list)))

StatusChartOf(list) == StatusChart(Reduce(list, InitialCounts))
TimeChartOf(list) == [k \in 1..Len(list) |-> MapCallback(list[k])]

(***************************************************************************)
(* The same list aggregated again (the memo callbacks run once more): each *)
(* run starts from a fresh initial object and a fresh array.               *)
(***************************************************************************)
\* Variant: the initial counters object is created once and shared by the
\* runs, so the reduce callback keeps adding to it.
Rerender_SharedCounts ==
  /\ apc = "done"
  /\ Len(outputs) + 1 < MaxRenders
  /\ outputs' = Append(outputs, [summary |-> statusChartData, points |-> timeChartData])
  /\ acc' = acc
  /\ idx' = 0
  /\ timeChartData' = <<>>
  /\ apc' = "reduce"
  /\ UNCHANGED <<source, statusChartData, value, result, npc, appvars>>

Rerender ==
  /\ apc = "done"
  /\ Len(outputs) + 1 < MaxRenders
  /\ outputs' = Append(outputs, [summary |-> statusChartData, points |-> timeChartData])
  /\ acc' = InitialCounts
  /\ idx' = 0
  /\ timeChartData' = <<>>
  /\ apc' = "reduce"
  /\ UNCHANGED <<source, statusChartData, value, result, npc, appvars>>

RerenderNext == ReduceStep \/ ReduceReturn \/ MapStep \/ MapReturn \/ Rerender

SpecRerender == AggInit /\ [][RerenderNext]_vars

(***************************************************************************)
(* The App component: session, loads, date selection, filters.             *)
(***************************************************************************)
Tokens == {"t1", "t2"}
Messages == {"Request failed", "Unauthorized"}
SearchTexts == {<<>>, <<"A", "N">>, <<"o">>}
StatusFilters == {"all", "checked_in", "checked_out"}
NotifiedFilters == {"all", "yes", "no"}

\* What the backend answers.
Ann == [student_name |-> "Ann", status |-> "checked_in", parent_notified |-> TRUE,
        time_spent |-> JsString(<<"3", "h", " ", "3", "m">>)]
Bo == [student_name |-> "Bo", status |-> "checked_out", parent_notified |-> FALSE,
       time_spent |-> JsNumber(30)]
CurrentResponses == {<<>>, <<Ann, Bo>>}
DatesResponses == {<<>>, <<"d1", "d2">>}
ArchiveOf(date) == IF date = "d1" THEN <<Bo>> ELSE <<Ann, Ann>>

\* The characters of a student name.
NameChars(name) ==
  CASE name = "Ann" -> <<"A", "n", "n">>
    [] name = "Bo" -> <<"B", "o">>
    [] OTHER -> <<>>

\* hay.includes(needle)
IncludesText(hay, needle) ==
  \E k \in 0..(Len(hay) - Len(needle)) : SubSeq(hay, k + 1, k + Len(needle)) = needle

\* Variant: the search is compared as typed, without toLowerCase().
FilterCallback_CaseSensitive(row, search, statusFilter, notifiedFilter) ==
  LET matchesSearch == IncludesText(NameChars(row.student_name), search)
      matchesStatus == statusFilter = "all" \/ row.status = statusFilter
      matchesNotified == \/ notifiedFilter = "all"
                         \/ (notifiedFilter = "yes" /\ row.parent_notified)
                         \/ (notifiedFilter = "no" /\ ~row.parent_notified)
  IN matchesSearch /\ matchesStatus /\ matchesNotified

\* The callback of currentRecords.filter.
FilterCallback(row, search, statusFilter, notifiedFilter) ==
  LET matchesSearch == IncludesText(ToLowerCase(NameChars(row.student_name)),
                                    ToLowerCase(search))
      matchesStatus == statusFilter = "all" \/ row.status = statusFilter
      matchesNotified == \/ notifiedFilter = "all"
                         \/ (notifiedFilter = "yes" /\ row.parent_notified)
                         \/ (notifiedFilter = "no" /\ ~row.parent_notified)
  IN matchesSearch /\ matchesStatus /\ matchesNotified

\* Variant: the kept records come out last first.
FilterRecords_Reversed(list, search, statusFilter, notifiedFilter) ==
  LET kept == SelectSeq(list, LAMBDA row :
                          FilterCallback(row, search, statusFilter, notifiedFilter))
  IN [k \in 1..Len(kept) |-> kept[Len(kept) + 1 - k]]

FilterRecords(list, search, statusFilter, notifiedFilter) ==
  SelectSeq(list, LAMBDA row : FilterCallback(row, search, statusFilter, notifiedFilter))

\* const source = selectedDate ? historyRecords : filteredCurrentRecords
SourceOf(date, history, filtered) == IF date # NULL THEN history ELSE filtered

\* The render that follows a state change.  filteredCurrentRecords and
\* timeChartData list everything they read as dependencies, so they are
\* recomputed whenever an input changed.  statusChartData lists
\* currentRecords, historyRecords and selectedDate: it is recomputed (from the
\* source of this render) only when one of these three changed.
Render(statusDepsChanged) ==
  /\ filteredCurrentRecords' =
       FilterRecords(currentRecords', currentSearch', currentStatusFilter',
                     currentNotifiedFilter')
  /\ timeChartData' =
       TimeChartOf(SourceOf(selectedDate', historyRecords', filteredCurrentRecords'))
  /\ statusChartData' =
       IF statusDepsChanged
       THEN StatusChartOf(SourceOf(selectedDate', historyRecords', filteredCurrentRecords'))
       ELSE statusChartData

\* useEffect [sessionToken] runs when the token changed to a token;
\* useEffect [selectedDate, sessionToken] runs when either changed and both
\* are set.
SessionEffectRuns(token) == token # sessionToken /\ token # NULL
DateEffectRuns(token, date) ==
  (token # sessionToken \/ date # selectedDate) /\ token # NULL /\ date # NULL

SessionRuns(token) == IF SessionEffectRuns(token) THEN 1 ELSE 0
DateRuns(token, date) == IF DateEffectRuns(token, date) THEN 1 ELSE 0
EffectRuns(token, date) == SessionRuns(token) + DateRuns(token, date)

\* The effects that follow a change of token or date, after a handler that
\* left loading and error at isLoading and message: each effect that runs
\* sets loading, clears error and starts its fetches.  fetchWithAuth's test
\* of the token never fails here, both effects return early without a token.
StartLoads(token, date, isLoading, message) ==
  LET first == loads.session + loads.date + 1
      second == loads.session + loads.date + EffectRuns(token, date)
      sessionLoads ==
        IF SessionEffectRuns(token)
        THEN {[id |-> first, kind |-> "current", date |-> NULL],
              [id |-> first, kind |-> "dates", date |-> NULL]}
        ELSE {}
      dateLoads ==
        IF DateEffectRuns(token, date)
        THEN {[id |-> second, kind |-> "byDate", date |-> date]}
        ELSE {}
  IN /\ loads' = [session |-> loads.session + SessionRuns(token),
                   date |-> loads.date + DateRuns(token, date)]
     /\ requests' = requests \cup sessionLoads \cup dateLoads
     /\ loading' = IF EffectRuns(token, date) > 0 THEN TRUE ELSE isLoading
     /\ error' = IF EffectRuns(token, date) > 0 THEN NULL ELSE message
     /\ lastFailure' = IF EffectRuns(token, date) > 0 THEN NULL ELSE lastFailure

LoadsFit(token, date) ==
  /\ loads.session + SessionRuns(token) <= MaxSessionLoads
  /\ loads.date + DateRuns(token, date) <= MaxDateLoads

aggIdleVars == <<value, result, npc, source, acc, idx, apc, outputs, download>>

AppInit ==
  /\ AppIdle
  /\ statusChartData = StatusChartOf(<<>>)
  /\ timeChartData = <<>>
  /\ source = <<>>
  /\ acc = InitialCounts
  /\ idx = 0
  /\ apc = "idle"
  /\ outputs = <<>>
  /\ NormIdle

\* getSession() resolves, or the auth subscription reports a session (sign-in
\* elsewhere, token refresh) or none (expiry, sign-out elsewhere).
AuthStateChange(token) ==
  /\ token # sessionToken
  /\ LoadsFit(token, selectedDate)
  /\ sessionToken' = token
  /\ StartLoads(token, selectedDate, loading, error)
  /\ UNCHANGED <<dates, selectedDate, currentRecords, historyRecords,
                 currentSearch, currentStatusFilter, currentNotifiedFilter,
                 rejected, signInPending, signOutPending, aggIdleVars>>
  /\ Render(FALSE)

\* handleSignIn up to its await; the form is shown without a token and its
\* button is disabled while loading.
HandleSignIn ==
  /\ sessionToken = NULL
  /\ ~loading
  /\ ~signInPending
  /\ signInPending' = TRUE
  /\ loading' = TRUE
  /\ error' = NULL
  /\ lastFailure' = NULL
  /\ UNCHANGED <<sessionToken, dates, selectedDate, currentRecords, historyRecords,
                 currentSearch, currentStatusFilter, currentNotifiedFilter,
                 requests, rejected, loads, signOutPending, aggIdleVars>>
  /\ Render(FALSE)

\* signInWithPassword answers with an error: the rest of handleSignIn.
SignInFails(message) ==
  /\ signInPending
  /\ signInPending' = FALSE
  /\ error' = message
  /\ lastFailure' = NULL
  /\ loading' = FALSE
  /\ UNCHANGED <<sessionToken, dates, selectedDate, currentRecords, historyRecords,
                 currentSearch, currentStatusFilter, currentNotifiedFilter,
                 requests, rejected, loads, signOutPending, aggIdleVars>>
  /\ Render(FALSE)

\* signInWithPassword answers with a session: the subscription sets the token,
\* the rest of handleSignIn sets loading to false, and the render of both
\* updates runs the effects.
SignInSucceeds(token) ==
  /\ signInPending
  /\ LoadsFit(token, selectedDate)
  /\ signInPending' = FALSE
  /\ sessionToken' = token
  /\ StartLoads(token, selectedDate, FALSE, error)
  /\ UNCHANGED <<dates, selectedDate, currentRecords, historyRecords,
                 currentSearch, currentStatusFilter, currentNotifiedFilter,
                 rejected, signOutPending, aggIdleVars>>
  /\ Render(FALSE)

\* handleSignOut up to its await; the button is shown with a token.
HandleSignOut ==
  /\ sessionToken # NULL
  /\ ~signOutPending
  /\ signOutPending' = TRUE
  /\ UNCHANGED <<sessionToken, loading, error, lastFailure, dates, selectedDate,
                 currentRecords, historyRecords,
                 currentSearch, currentStatusFilter, currentNotifiedFilter,
                 requests, rejected, loads, signInPending, aggIdleVars>>
  /\ Render(FALSE)

\* signOut() resolves: the session is removed (the subscription sets the token
\* to null) or, when the call failed, it is not; the rest of handleSignOut
\* clears the date and both lists either way.
SignOutSettles(removed) ==
  /\ signOutPending
  /\ signOutPending' = FALSE
  /\ sessionToken' = IF removed THEN NULL ELSE sessionToken
  /\ selectedDate' = NULL
  /\ currentRecords' = <<>>
  /\ historyRecords' = <<>>
  /\ UNCHANGED <<loading, error, lastFailure, dates,
                 currentSearch, currentStatusFilter, currentNotifiedFilter,
                 requests, rejected, loads, signInPending, aggIdleVars>>
  /\ Render(TRUE)

\* A click on an archived date.
SelectDate(date) ==
  /\ sessionToken # NULL
  /\ \E k \in 1..Len(dates) : dates[k] = date
  /\ date # selectedDate
  /\ LoadsFit(sessionToken, date)
  /\ selectedDate' = date
  /\ StartLoads(sessionToken, date, loading, error)
  /\ UNCHANGED <<sessionToken, dates, currentRecords, historyRecords,
                 currentSearch, currentStatusFilter, currentNotifiedFilter,
                 rejected, signInPending, signOutPending, aggIdleVars>>
  /\ Render(TRUE)

\* A click on the "Current Day" tab.
ShowCurrentDay ==
  /\ sessionToken # NULL
  /\ selectedDate # NULL
  /\ selectedDate' = NULL
  /\ UNCHANGED <<sessionToken, loading, error, lastFailure, dates, currentRecords, historyRecords,
                 currentSearch, currentStatusFilter, currentNotifiedFilter,
                 requests, rejected, loads, signInPending, signOutPending, aggIdleVars>>
  /\ Render(TRUE)

\* The three filter inputs of the "Current Day" tab.
FiltersShown == sessionToken # NULL /\ selectedDate = NULL

SetCurrentSearch(text) ==
  /\ FiltersShown
  /\ text # currentSearch
  /\ currentSearch' = text
  /\ UNCHANGED <<sessionToken, loading, error, lastFailure, dates, selectedDate,
                 currentRecords, historyRecords,
                 currentStatusFilter, currentNotifiedFilter,
                 requests, rejected, loads, signInPending, signOutPending, aggIdleVars>>
  /\ Render(FALSE)

SetCurrentStatusFilter(option) ==
  /\ FiltersShown
  /\ option # currentStatusFilter
  /\ currentStatusFilter' = option
  /\ UNCHANGED <<sessionToken, loading, error, lastFailure, dates, selectedDate,
                 currentRecords, historyRecords,
                 currentSearch, currentNotifiedFilter,
                 requests, rejected, loads, signInPending, signOutPending, aggIdleVars>>
  /\ Render(FALSE)

SetCurrentNotifiedFilter(option) ==
  /\ FiltersShown
  /\ option # currentNotifiedFilter
  /\ currentNotifiedFilter' = option
  /\ UNCHANGED <<sessionToken, loading, error, lastFailure, dates, selectedDate,
                 currentRecords, historyRecords,
                 currentSearch, currentStatusFilter,
                 requests, rejected, loads, signInPending, signOutPending, aggIdleVars>>
  /\ Render(FALSE)

\* The other fetch of the same Promise.all is still in flight.
Sibling(r) == \E q \in requests \ {r} : q.id = r.id

\* What the Promise.all chain of a session load does when r, one of its two
\* fetches, fulfils: nothing while the other is in flight and nothing when the
\* other has rejected; otherwise .finally sets loading to false.  A by-date
\* load has a chain of its own.
AfterFulfilled(r) ==
  IF r.kind = "byDate" THEN loading' = FALSE /\ rejected' = rejected
  ELSE IF Sibling(r) THEN UNCHANGED <<loading, rejected>>
  ELSE IF r.id \in rejected THEN loading' = loading /\ rejected' = rejected \ {r.id}
  ELSE loading' = FALSE /\ rejected' = rejected

\* Variant: the chain has no .finally, loading stays as it is.
AfterRejected_NoFinally(r, message) ==
  IF r.kind # "byDate" /\ r.id \in rejected
  THEN /\ UNCHANGED <<error, loading>>
       /\ lastFailure' = message
       /\ rejected' = rejected \ {r.id}
  ELSE /\ error' = message
       /\ lastFailure' = message
       /\ loading' = loading
       /\ rejected' = IF r.kind # "byDate" /\ Sibling(r) THEN rejected \cup {r.id}
                      ELSE rejected

\* What the chain does when r rejects with message: the first rejection of a
\* chain goes to .catch (setError) and .finally (setLoading(false)); a second
\* rejection of the same Promise.all is dropped.
AfterRejected(r, message) ==
  IF r.kind # "byDate" /\ r.id \in rejected
  THEN /\ UNCHANGED <<error, loading>>
       /\ lastFailure' = message
       /\ rejected' = rejected \ {r.id}
  ELSE /\ error' = message
       /\ lastFailure' = message
       /\ loading' = FALSE
       /\ rejected' = IF r.kind # "byDate" /\ Sibling(r) THEN rejected \cup {r.id}
                      ELSE rejected

\* loadCurrent after its await: the answer is ok.
CurrentLoaded(r, records) ==
  /\ r \in requests
  /\ r.kind = "current"
  /\ requests' = requests \ {r}
  /\ currentRecords' = records
  /\ AfterFulfilled(r)
  /\ UNCHANGED <<sessionToken, error, lastFailure, dates, selectedDate, historyRecords,
                 currentSearch, currentStatusFilter, currentNotifiedFilter,
                 loads, signInPending, signOutPending, aggIdleVars>>
  /\ Render(TRUE)

\* loadDates after its await: the answer is ok.
DatesLoaded(r, list) ==
  /\ r \in requests
  /\ r.kind = "dates"
  /\ requests' = requests \ {r}
  /\ dates' = list
  /\ AfterFulfilled(r)
  /\ UNCHANGED <<sessionToken, error, lastFailure, selectedDate, currentRecords, historyRecords,
                 currentSearch, currentStatusFilter, currentNotifiedFilter,
                 loads, signInPending, signOutPending, aggIdleVars>>
  /\ Render(FALSE)

\* loadByDate after its await: the answer is ok.
ByDateLoaded(r) ==
  /\ r \in requests
  /\ r.kind = "byDate"
  /\ requests' = requests \ {r}
  /\ historyRecords' = ArchiveOf(r.date)
  /\ AfterFulfilled(r)
  /\ UNCHANGED <<sessionToken, error, lastFailure, dates, selectedDate, currentRecords,
                 currentSearch, currentStatusFilter, currentNotifiedFilter,
                 loads, signInPending, signOutPending, aggIdleVars>>
  /\ Render(TRUE)

\* fetchWithAuth throws: the answer is not ok or carries an error field.
RequestFails(r, message) ==
  /\ r \in requests
  /\ requests' = requests \ {r}
  /\ AfterRejected(r, message)
  /\ UNCHANGED <<sessionToken, dates, selectedDate, currentRecords, historyRecords,
                 currentSearch, currentStatusFilter, currentNotifiedFilter,
                 loads, signInPending, signOutPending, aggIdleVars>>
  /\ Render(FALSE)

LoadIds == 1..(MaxSessionLoads + MaxDateLoads)
Requests ==
  [id : LoadIds, kind : {"current", "dates"}, date : {NULL}]
    \cup [id : LoadIds, kind : {"byDate"}, date : {"d1", "d2"}]

\* The filter values tried together with the loads.
AppSearchTexts == {<<>>, <<"A", "N">>}
AppStatusFilters == {"all", "checked_out"}
AppNotifiedFilters == {"all", "yes"}

AppNext ==
  \/ \E token \in Tokens \cup {NULL} : AuthStateChange(token)
  \/ HandleSignIn
  \/ \E message \in Messages : SignInFails(message)
  \/ \E token \in Tokens : SignInSucceeds(token)
  \/ HandleSignOut
  \/ \E removed \in BOOLEAN : SignOutSettles(removed)
  \/ \E date \in {"d1", "d2"} : SelectDate(date)
  \/ ShowCurrentDay
  \/ \E text \in AppSearchTexts : SetCurrentSearch(text)
  \/ \E option \in AppStatusFilters : SetCurrentStatusFilter(option)
  \/ \E option \in AppNotifiedFilters : SetCurrentNotifiedFilter(option)
  \/ \E r \in Requests, records \in CurrentResponses : CurrentLoaded(r, records)
  \/ \E r \in Requests, list \in DatesResponses : DatesLoaded(r, list)
  \/ \E r \in Requests : ByDateLoaded(r)
  \/ \E r \in Requests, message \in Messages : RequestFails(r, message)

SpecApp == AppInit /\ [][AppNext]_vars

(***************************************************************************)
(* The filter on its own: a session whose current records are any list,    *)
(* loaded with the filters at their defaults, and the three filter inputs. *)
(***************************************************************************)
FilterInputRecords ==
  [student_name : Names, status : Statuses, parent_notified : BOOLEAN,
   time_spent : {JsNull}]
FilterInputLists == UNION {[1..n -> FilterInputRecords] : n \in 0..MaxRecords}

FilterInit ==
  /\ sessionToken = "t1"
  /\ loading = FALSE
  /\ error = NULL
  /\ lastFailure = NULL
  /\ download = NoDownload
  /\ dates = <<>>
  /\ selectedDate = NULL
  /\ currentRecords \in FilterInputLists
  /\ historyRecords = <<>>
  /\ currentSearch = <<>>
  /\ currentStatusFilter = "all"
  /\ currentNotifiedFilter = "all"
  /\ filteredCurrentRecords = currentRecords
  /\ requests = {}
  /\ rejected = {}
  /\ loads = [session |-> 1, date |-> 0]
  /\ signInPending = FALSE
  /\ signOutPending = FALSE
  /\ statusChartData = StatusChartOf(currentRecords)
  /\ timeChartData = TimeChartOf(currentRecords)
  /\ source = <<>>
  /\ acc = InitialCounts
  /\ idx = 0
  /\ apc = "idle"
  /\ outputs = <<>>
  /\ NormIdle

FilterNext ==
  \/ \E text \in SearchTexts : SetCurrentSearch(text)
  \/ \E option \in StatusFilters : SetCurrentStatusFilter(option)
  \/ \E option \in NotifiedFilters : SetCurrentNotifiedFilter(option)

SpecFilter == FilterInit /\ [][FilterNext]_vars

(***************************************************************************)
(* downloadHistoryCsv on its own: one call with any date and history list. *)
(***************************************************************************)
DecimalDigits == <<"0", "1", "2", "3", "4", "5", "6", "7", "8", "9">>

\* The characters of a status and of an archived date.
StatusChars(status) ==
  CASE status = "checked_in" -> <<"c", "h", "e", "c", "k", "e", "d", "_", "i", "n">>
    [] status = "checked_out" -> <<"c", "h", "e", "c", "k", "e", "d", "_", "o", "u", "t">>
    [] OTHER -> <<>>
DateChars(date) ==
  CASE date = "d1" -> <<"d", "1">>
    [] date = "d2" -> <<"d", "2">>
    [] OTHER -> <<>>

\* The digits of a number, as String(value) writes them.
RECURSIVE NaturalToString(_)
NaturalToString(n) ==
  IF n < 10 THEN <<DecimalDigits[n + 1]>>
  ELSE NaturalToString(n \div 10) \o <<DecimalDigits[(n % 10) + 1]>>

\* String(value) for a string or a number.
String(v) ==
  IF v.t = "string" THEN v.str
  ELSE IF v.n < 0 THEN <<"-">> \o NaturalToString(-v.n)
  ELSE NaturalToString(v.n)

\* a ?? ""
OrEmpty(a) == IF a.t \in {"null", "undefined"} THEN JsString(<<>>) ELSE a

headers ==
  <<<<"s", "t", "u", "d", "e", "n", "t", "_", "n", "a", "m", "e">>,
    <<"s", "t", "a", "t", "u", "s">>,
    <<"p", "a", "r", "e", "n", "t", "_", "n", "o", "t", "i", "f", "i", "e", "d">>,
    <<"t", "i", "m", "e", "_", "s", "p", "e", "n", "t">>,
    <<"c", "h", "e", "c", "k", "i", "n", "_", "t", "i", "m", "e">>,
    <<"c", "h", "e", "c", "k", "o", "u", "t", "_", "t", "i", "m", "e">>,
    <<"d", "a", "t", "e">>>>

\* The callback of historyRecords.map: the seven values of a row.
RowCallback(row) ==
  <<JsString(row.student_name),
    JsString(StatusChars(row.status)),
    JsString(IF row.parent_notified THEN <<"t", "r", "u", "e">> ELSE <<"f", "a", "l", "s", "e">>),
    OrEmpty(row.time_spent),
    OrEmpty(row.checkin_time),
    OrEmpty(row.checkout_time),
    OrEmpty(row.date)>>

\* text.replace(/"/g, '""')
RECURSIVE ReplaceQuotes(_)
ReplaceQuotes(text) ==
  IF text = <<>> THEN <<>>
  ELSE (IF Head(text) = "\"" THEN <<"\"", "\"">> ELSE <<Head(text)>>)
       \o ReplaceQuotes(Tail(text))

\* Variant: the value is wrapped without doubling its quotes.
QuoteCallback_NoReplace(v) == <<"\"">> \o String(v) \o <<"\"">>

\* The callback of line.map: `"${text}"`
QuoteCallback(v) == <<"\"">> \o ReplaceQuotes(String(v)) \o <<"\"">>

\* parts.join(sep)
RECURSIVE Join(_, _)
Join(parts, sep) ==
  IF parts = <<>> THEN <<>>
  ELSE IF Len(parts) = 1 THEN parts[1]
  ELSE parts[1] \o sep \o Join(Tail(parts), sep)

CsvOf(list) ==
  LET rows == [k \in 1..Len(list) |-> RowCallback(list[k])]
      lines == <<[k \in 1..Len(headers) |-> JsString(headers[k])]>> \o rows
  IN Join([k \in 1..Len(lines) |->
             Join([j \in 1..Len(lines[k]) |-> QuoteCallback(lines[k][j])], <<",">>)],
          <<"\n">>)

MaxRows == 2 \* history records in one download

\* Names with the characters the quoting is about: a quote, a comma, a line
\* feed.
CsvNames ==
  {<<"A">>, <<"\"">>, <<"A", "\"", "B">>, <<"\"", "\"">>, <<",">>, <<"A", "\n", "B">>}
CsvTimes == {JsNull, JsString(<<"9">>)}
CsvRecords ==
  [student_name : CsvNames, status : {"checked_in"}, parent_notified : {TRUE},
   time_spent : {JsNull}, checkin_time : {JsNull}, checkout_time : {JsNull},
   date : {JsNull}]
  \cup
  [student_name : {<<"A">>}, status : {"checked_out"}, parent_notified : {FALSE},
   time_spent : {JsNull, JsNumber(30), JsString(<<"3", "h", " ", "3", "m">>)},
   checkin_time : CsvTimes, checkout_time : CsvTimes,
   date : {JsNull, JsString(<<"d", "1">>)}]
CsvLists == UNION {[1..n -> CsvRecords] : n \in 0..MaxRows}

CsvInit ==
  /\ sessionToken = "t1"
  /\ loading = FALSE
  /\ error = NULL
  /\ lastFailure = NULL
  /\ dates = <<"d1", "d2">>
  /\ selectedDate \in {NULL, "d1"}
  /\ currentRecords = <<>>
  /\ historyRecords \in CsvLists
  /\ currentSearch = <<>>
  /\ currentStatusFilter = "all"
  /\ currentNotifiedFilter = "all"
  /\ filteredCurrentRecords = <<>>
  /\ requests = {}
  /\ rejected = {}
  /\ loads = [session |-> 1, date |-> 1]
  /\ signInPending = FALSE
  /\ signOutPending = FALSE
  /\ download = NoDownload
  /\ statusChartData = StatusChartOf(SourceOf(selectedDate, historyRecords, <<>>))
  /\ timeChartData = TimeChartOf(SourceOf(selectedDate, historyRecords, <<>>))
  /\ source = <<>>
  /\ acc = InitialCounts
  /\ idx = 0
  /\ apc = "idle"
  /\ outputs = <<>>
  /\ NormIdle

\* One call of downloadHistoryCsv: the early return, or the file that the
\* link downloads.
DownloadHistoryCsv ==
  /\ download.pc = "idle"
  /\ download' =
       IF selectedDate = NULL \/ Len(historyRecords) = 0
       THEN [pc |-> "returned", name |-> <<>>, content |-> <<>>]
       ELSE [pc |-> "returned",
             name |-> <<"a", "t", "t", "e", "n", "d", "a", "n", "c", "e", "_">> \o DateChars(selectedDate) \o <<".", "c", "s", "v">>,
             content |-> CsvOf(historyRecords)]
  /\ UNCHANGED <<value, result, npc, avars, outputs,
                 sessionToken, loading, error, dates, selectedDate,
                 currentRecords, historyRecords,
                 currentSearch, currentStatusFilter, currentNotifiedFilter,
                 filteredCurrentRecords,
                 requests, rejected, loads, signInPending, signOutPending,
                 lastFailure>>

CsvNext == DownloadHistoryCsv

SpecCsv == CsvInit /\ [][CsvNext]_vars

(***************************************************************************)
(* Properties of parseMinutes, stated without the operators above.         *)
(***************************************************************************)
Returned == npc = "returned"
IsText == value.t = "string"
HasH(s) == \E k \in 1..Len(s) : s[k] \in {"h", "H"}
HasDigit(s) == \E k \in 1..Len(s) : s[k] \in Digits

RECURSIVE Pow10(_)
Pow10(n) == IF n = 0 THEN 1 ELSE 10 * Pow10(n - 1)

\* The integer a string of digits spells, as a positional sum; 0 for <<>>.
RECURSIVE PositionalSum(_, _)
PositionalSum(s, k) ==
  IF k > Len(s) THEN 0
  ELSE DigitVal(s[k]) * Pow10(Len(s) - k) + PositionalSum(s, k + 1)

\* The digit characters of s, in order.
RECURSIVE DigitsOf(_)
DigitsOf(s) ==
  IF s = <<>> THEN <<>>
  ELSE IF Head(s) \in Digits THEN <<Head(s)>> \o DigitsOf(Tail(s))
  ELSE DigitsOf(Tail(s))

\* Positions of an "h" (either case) immediately preceded by a digit.
HourMarks(s) == {p \in 2..Len(s) : s[p] \in {"h", "H"} /\ s[p - 1] \in Digits}
FirstHourMark(s) == CHOOSE p \in HourMarks(s) : \A q \in HourMarks(s) : p <= q

\* The digit run that ends at index e (e >= 1, s[e] a digit).
RunBefore(s, e) ==
  LET b == CHOOSE j \in 1..e :
             /\ \A k \in j..e : s[k] \in Digits
             /\ (j = 1 \/ s[j - 1] \notin Digits)
  IN SubSeq(s, b, e)

\* The digit run that follows index p after optional whitespace (<<>> if none).
RunAfter(s, p) ==
  LET rest == (p + 1)..Len(s)
      b == IF \E j \in rest : s[j] \notin Whitespace
           THEN CHOOSE j \in rest : /\ s[j] \notin Whitespace
                                    /\ \A k \in (p + 1)..(j - 1) : s[k] \in Whitespace
           ELSE Len(s) + 1
      ends == {e \in b..Len(s) : \A k \in b..e : s[k] \in Digits}
  IN IF ends = {} THEN <<>>
     ELSE SubSeq(s, b, CHOOSE e \in ends : \A f \in ends : f <= e)

ExpectedHourMinutes(s) ==
  IF HourMarks(s) = {} THEN 0
  ELSE LET p == FirstHourMark(s)
       IN 60 * PositionalSum(RunBefore(s, p - 1), 1) + PositionalSum(RunAfter(s, p), 1)

\* C1 as stated: for every input (null, any integer including negative ones,
\* any text) parseMinutes returns an integer that is >= 0.
C1_NonNegativeForEveryInput ==
  Returned => result.t = "number" /\ result.n >= 0

\* C1, amended: for every null input, every non-negative integer and every
\* text, parseMinutes returns an integer that is >= 0.
C1_NonNegative ==
  (Returned /\ ~(value.t = "number" /\ value.n < 0))
    => result.t = "number" /\ result.n >= 0

C1_Witness ==
  /\ Returned /\ IsText
  /\ Includes(value.str, "-") /\ HasDigit(value.str)
  /\ result.t = "number" /\ result.n > 0

\* C2: parseMinutes is total: for every null, numeric or textual input it
\* returns a number (not NaN) and throws nothing, and a text without any
\* digit, which can match no hour pattern either, yields exactly 0.
C2_Total ==
  Returned =>
    /\ result.t = "number"
    /\ (IsText /\ ~HasDigit(value.str)) => result.n = 0

C2_Witness ==
  /\ Returned /\ IsText
  /\ HasH(value.str) /\ ~HasDigit(value.str) /\ Len(value.str) >= 2
  /\ result = JsNumber(0)

\* C3: for a text that contains the letter h in either case, parseMinutes
\* returns hours * 60 + minutes, hours being the digit run immediately before
\* the first "h" that follows a digit and minutes the digit run that follows
\* that "h" after optional whitespace (0 when absent); when no digit run is
\* immediately followed by "h" the result is 0, whatever other digits the
\* text contains.
C3_HourPattern ==
  (Returned /\ IsText /\ HasH(value.str))
    => result = JsNumber(ExpectedHourMinutes(value.str))

C3_Witness ==
  /\ Returned /\ IsText /\ HasH(value.str)
  /\ \E p \in HourMarks(value.str) :
        /\ p + 2 <= Len(value.str)
        /\ value.str[p + 1] \in Whitespace
        /\ value.str[p + 2] = "3"
  /\ result.n = 183

\* The other case of C3: digits, an "h", and no digit run before an "h".
C3_WitnessNoMatch ==
  /\ Returned /\ IsText /\ HasH(value.str) /\ HasDigit(value.str)
  /\ HourMarks(value.str) = {}
  /\ result = JsNumber(0)

\* C4: for a text that contains no letter h in either case, parseMinutes
\* returns the integer spelled by the digit characters of the text taken in
\* order, every other character being dropped, and 0 when there is no digit.
C4_DigitStripping ==
  (Returned /\ IsText /\ ~HasH(value.str))
    => result = JsNumber(PositionalSum(DigitsOf(value.str), 1))

C4_Witness ==
  /\ Returned /\ IsText /\ ~HasH(value.str)
  /\ \E j, k \in 1..Len(value.str) :
        /\ j + 1 < k
        /\ value.str[j] = "3" /\ value.str[k] = "3"
        /\ value.str[j + 1] \notin Digits
  /\ result.n = 33

\* C5: parseMinutes returns 0 for an absent value and returns every numeric
\* value unchanged, without clamping.
C5_NullAndNumberPassthrough ==
  Returned =>
    /\ value.t = "null" => result = JsNumber(0)
    /\ value.t = "number" => result = JsNumber(value.n)

C5_Witness ==
  Returned /\ value.t = "number" /\ value.n < 0 /\ result.n = value.n

\* C6 as stated: for every text t, parseMinutes(t) equals parseMinutes of t
\* lower-cased and parseMinutes of t upper-cased.
C6_CaseInsensitiveEveryText ==
  (Returned /\ IsText) =>
    /\ result = parseMinutes(JsString(ToLowerCase(value.str)))
    /\ result = parseMinutes(JsString(ToUpperCase(value.str)))

\* C6, amended: for every text t that does not contain U+1E96 (whose
\* upper-case form is "H" followed by a combining mark), so in particular for
\* every ASCII text, parseMinutes(t) equals parseMinutes of t lower-cased and
\* parseMinutes of t upper-cased.
C6_CaseInsensitive ==
  (Returned /\ IsText /\ ~Includes(value.str, "U1E96")) =>
    /\ result = parseMinutes(JsString(ToLowerCase(value.str)))
    /\ result = parseMinutes(JsString(ToUpperCase(value.str)))

C6_Witness ==
  /\ Returned /\ IsText
  /\ Includes(value.str, "H") /\ ~Includes(value.str, "h")
  /\ ~Includes(value.str, "U1E96")
  /\ result.n = 183
  /\ ToLowerCase(value.str) # value.str

(***************************************************************************)
(* Properties of the aggregations.                                         *)
(***************************************************************************)
CountWhere(P(_), n) == Cardinality({k \in 1..n : P(source[k])})
IsCheckedIn(row) == row.status = "checked_in"
IsCheckedOut(row) == row.status = "checked_out"
IsNotified(row) == row.parent_notified
IsOtherStatus(row) == row.status \notin {"checked_in", "checked_out"}
SummaryReady == apc \in {"map", "done"}

\* C7: for every record list, checkedIn is the number of records whose status
\* is exactly "checked_in", checkedOut the number whose status is exactly
\* "checked_out", notified the number with parent_notified true, after each
\* record of the pass and in the array returned; a record can add to a status
\* counter and to notified.
C7_SummaryCounts ==
  /\ apc = "reduce" =>
       /\ acc.checkedIn = CountWhere(IsCheckedIn, idx)
       /\ acc.checkedOut = CountWhere(IsCheckedOut, idx)
       /\ acc.notified = CountWhere(IsNotified, idx)
  /\ SummaryReady =>
       /\ Len(statusChartData) = 3
       /\ statusChartData[1] = [name |-> "Checked In", value |-> CountWhere(IsCheckedIn, Len(source))]
       /\ statusChartData[2] = [name |-> "Checked Out", value |-> CountWhere(IsCheckedOut, Len(source))]
       /\ statusChartData[3] = [name |-> "Notified", value |-> CountWhere(IsNotified, Len(source))]

C7_Witness ==
  /\ apc = "done"
  /\ Len(source) = 1
  /\ source[1].status = "checked_in" /\ source[1].parent_notified
  /\ statusChartData[1].value = 1
  /\ statusChartData[2].value = 0
  /\ statusChartData[3].value = 1

\* C8: for every record list, checkedIn + checkedOut <= length and
\* notified <= length.
C8_CountersBounded ==
  /\ apc = "reduce" =>
       /\ acc.checkedIn + acc.checkedOut <= idx
       /\ acc.notified <= idx
  /\ SummaryReady =>
       /\ statusChartData[1].value + statusChartData[2].value <= Len(source)
       /\ statusChartData[3].value <= Len(source)

C8_Witness ==
  /\ apc = "done"
  /\ Len(source) = 2
  /\ statusChartData[1].value = 1
  /\ statusChartData[2].value = 1
  /\ statusChartData[3].value = 2

\* C9: for every record list, timeChartData has one point per record, in the
\* order of the records, the i-th being the i-th record's student_name and
\* parseMinutes of its time_spent; equal names stay separate points.
C9_DurationPoints ==
  /\ apc = "map" =>
       /\ Len(timeChartData) = idx
       /\ \A k \in 1..idx :
            /\ timeChartData[k].name = source[k].student_name
            /\ timeChartData[k].minutes = parseMinutes(source[k].time_spent)
  /\ apc = "done" =>
       /\ Len(timeChartData) = Len(source)
       /\ \A k \in 1..Len(source) :
            /\ timeChartData[k].name = source[k].student_name
            /\ timeChartData[k].minutes = parseMinutes(source[k].time_spent)
            /\ timeChartData[k].minutes.t = "number"

C9_Witness ==
  /\ apc = "done"
  /\ Len(source) = 2
  /\ source[1].student_name = source[2].student_name
  /\ timeChartData[1] = [name |-> "Ann", minutes |-> JsNumber(183)]
  /\ timeChartData[2] = [name |-> "Ann", minutes |-> JsNumber(30)]

\* C10: a record whose status is neither "checked_in" nor "checked_out"
\* changes neither status counter, adds one to notified exactly when its
\* parent_notified is true, and adds exactly one duration point, its own.
C10_OtherStatusTolerated ==
  [][ /\ (apc = "reduce" /\ idx < Len(source) /\ IsOtherStatus(source[idx + 1])) =>
           /\ acc'.checkedIn = acc.checkedIn
           /\ acc'.checkedOut = acc.checkedOut
           /\ acc'.notified = acc.notified + (IF source[idx + 1].parent_notified THEN 1 ELSE 0)
      /\ (apc = "map" /\ idx < Len(source) /\ IsOtherStatus(source[idx + 1])) =>
           /\ Len(timeChartData') = Len(timeChartData) + 1
           /\ SubSeq(timeChartData', 1, Len(timeChartData)) = timeChartData
           /\ timeChartData'[Len(timeChartData')].name = source[idx + 1].student_name
    ]_vars

C10_Witness ==
  /\ apc = "done"
  /\ Len(source) = 1
  /\ IsOtherStatus(source[1]) /\ source[1].parent_notified
  /\ statusChartData[1].value = 0
  /\ statusChartData[2].value = 0
  /\ statusChartData[3].value = 1
  /\ Len(timeChartData) = 1

\* C11: aggregating the empty list gives the summary 0, 0, 0 and no duration
\* point, and both aggregations return.
C11_EmptyInput ==
  (source = <<>>) =>
    /\ SummaryReady => statusChartData = << [name |-> "Checked In", value |-> 0],
                                            [name |-> "Checked Out", value |-> 0],
                                            [name |-> "Notified", value |-> 0] >>
    /\ timeChartData = <<>>
    /\ ENABLED AggNext \/ apc = "done"

C11_Witness ==
  /\ source = <<>>
  /\ apc = "done"
  /\ Len(statusChartData) = 3
  /\ statusChartData[3].value = 0
  /\ timeChartData = <<>>

\* The list P that takes its k-th record from position p[k] of source.
Permuted(p) == [k \in 1..Len(source) |-> source[p[k]]]

\* C12: for every record list and every permutation of it, the summary of the
\* permuted list equals the summary of the list, and the duration points of
\* the permuted list are the duration points of the list permuted the same
\* way.
C12_OrderIndependent ==
  apc = "done" =>
    \A p \in Permutations(1..Len(source)) :
      /\ StatusChartOf(Permuted(p)) = statusChartData
      /\ TimeChartOf(Permuted(p)) = [k \in 1..Len(source) |-> timeChartData[p[k]]]

C12_Witness ==
  /\ apc = "done"
  /\ Len(source) = 2
  /\ source[1].status = "checked_out" /\ source[2].status = "checked_in"
  /\ source[1].time_spent # source[2].time_spent
  /\ statusChartData[1].value = 1
  /\ statusChartData[2].value = 1
  /\ timeChartData[1] # timeChartData[2]

\* C13: a second aggregation of the same list returns the summary and the
\* duration points of the first, and no step of an aggregation changes the
\* list it reads.
C13_Deterministic ==
  /\ [](apc = "done" =>
          \A k \in 1..Len(outputs) :
            outputs[k] = [summary |-> statusChartData, points |-> timeChartData])
  /\ [][source' = source]_vars

C13_Witness ==
  /\ apc = "done"
  /\ Len(outputs) = 1
  /\ Len(source) = 2
  /\ outputs[1].summary[1].value = 1
  /\ outputs[1].summary[3].value = 2
  /\ Len(outputs[1].points) = 2
  /\ statusChartData[3].value = 2

(***************************************************************************)
(* Properties of the filter.                                               *)
(***************************************************************************)
\* Two characters that are the same letter, in whatever case.
SameLetter(a, b) ==
  a = b \/ {a, b} \in {{"a", "A"}, {"b", "B"}, {"n", "N"}, {"o", "O"}}

\* text occurs in name at some offset, letter by letter, ignoring case.
OccursIgnoringCase(name, text) ==
  \E off \in 0..(Len(name) - Len(text)) :
    \A k \in 1..Len(text) : SameLetter(name[off + k], text[k])

Keeps(row) ==
  /\ OccursIgnoringCase(NameChars(row.student_name), currentSearch)
  /\ currentStatusFilter \in {"all", row.status}
  /\ CASE currentNotifiedFilter = "all" -> TRUE
       [] currentNotifiedFilter = "yes" -> row.parent_notified = TRUE
       [] currentNotifiedFilter = "no" -> row.parent_notified = FALSE
       [] OTHER -> FALSE

\* The records of list at the positions in K, in order.
RecordsAt(list, K) ==
  [j \in 1..Cardinality(K) |->
     list[CHOOSE i \in K : Cardinality({m \in K : m < i}) = j - 1]]

KeptRecords ==
  RecordsAt(currentRecords,
            {i \in 1..Len(currentRecords) : Keeps(currentRecords[i])})

\* C14: the filter keeps a record if and only if its student_name contains
\* the search text ignoring case, the status filter is "all" or the record's
\* status, and the notified filter is "all", or "yes" with parent_notified
\* true, or "no" with parent_notified false; with only notified = "yes" set it
\* keeps exactly the records with parent_notified true.
C14_FilterKeeps ==
  /\ filteredCurrentRecords = KeptRecords
  /\ (currentSearch = <<>> /\ currentStatusFilter = "all" /\ currentNotifiedFilter = "yes")
       => filteredCurrentRecords =
            RecordsAt(currentRecords,
                      {i \in 1..Len(currentRecords) :
                         currentRecords[i].parent_notified = TRUE})

C14_Witness ==
  /\ currentSearch = <<"A", "N">>
  /\ currentStatusFilter = "checked_in"
  /\ currentNotifiedFilter = "yes"
  /\ Len(currentRecords) = 2
  /\ currentRecords[1].student_name = "Bo"
  /\ Len(filteredCurrentRecords) = 1
  /\ filteredCurrentRecords[1] = currentRecords[2]

(***************************************************************************)
(* Properties of the App component.                                        *)
(***************************************************************************)
CurrentSource ==
  IF selectedDate # NULL THEN historyRecords ELSE KeptRecords

\* C15: after any sequence of loads, date selections and filter changes, the
\* status summary handed to the chart is the aggregation of the current source
\* list: the filtered current records without a selected date, the history
\* records with one.
C15_SummaryOfCurrentSource ==
  statusChartData = StatusChartOf(CurrentSource)

\* A fetch chain or a sign-in call that has not settled yet: a request whose
\* Promise.all has not rejected, or a pending sign-in.
ChainPending ==
  \/ signInPending
  \/ \E r \in requests : r.kind = "byDate" \/ r.id \notin rejected

\* C16 as stated: when a request fails, its message is stored in error and
\* the record lists are left as they are; loading is true only while a chain
\* that will set it to false is pending.
C16_EveryFailureStored ==
  /\ [](loading => ChainPending)
  /\ [][\A r \in Requests, message \in Messages :
          RequestFails(r, message) =>
            /\ error' = message
            /\ currentRecords' = currentRecords
            /\ historyRecords' = historyRecords
            /\ dates' = dates]_vars

\* C16, amended: when a request fails, the record lists are left as they are;
\* its message is stored in error and loading is set to false, unless the
\* other fetch of the same session load has failed before it, in which case
\* error and loading stay as they are; loading is true only while a chain
\* that will set it to false is pending.
C16_FailureStored ==
  /\ [](loading => ChainPending)
  /\ [][\A r \in Requests, message \in Messages :
          RequestFails(r, message) =>
            /\ currentRecords' = currentRecords
            /\ historyRecords' = historyRecords
            /\ dates' = dates
            /\ IF r.kind # "byDate" /\ r.id \in rejected
               THEN error' = error /\ loading' = loading
               ELSE error' = message /\ loading' = FALSE]_vars

C16_Witness ==
  /\ lastFailure = "Unauthorized"
  /\ error = "Request failed"
  /\ ~loading
  /\ requests = {}
  /\ currentRecords = <<>>
  /\ dates = <<>>

\* C17: with a date selected and no fetch in flight after loads that all
\* succeeded, historyRecords holds the records of the selected date, whatever
\* the order in which the answers arrived.
C17_HistoryOfSelectedDate ==
  (selectedDate # NULL /\ sessionToken # NULL /\ requests = {} /\ error = NULL)
    => historyRecords = ArchiveOf(selectedDate)

\* C18: the status summary and the duration series handed to the charts come
\* from the same list: checkedIn + checkedOut does not exceed the number of
\* duration points, and neither does notified.
C18_SummaryWithinPoints ==
  /\ statusChartData[1].value + statusChartData[2].value <= Len(timeChartData)
  /\ statusChartData[3].value <= Len(timeChartData)

\* C19: loading is true whenever a fetch or a sign-in call is in flight.
C19_LoadingWhileInFlight ==
  (requests # {} \/ signInPending) => loading

\* C20: whenever the session token is null and no request and no sign-out is
\* in flight, currentRecords and historyRecords are empty and selectedDate is
\* null.
C20_NoRecordsWithoutSession ==
  (sessionToken = NULL /\ requests = {} /\ ~signOutPending)
    => /\ currentRecords = <<>>
       /\ historyRecords = <<>>
       /\ selectedDate = NULL

\* sub is list with some positions left out, the rest in order and as they are.
IsSubsequence(sub, list) ==
  \E K \in SUBSET (1..Len(list)) : sub = RecordsAt(list, K)

DefaultFilters ==
  currentSearch = <<>> /\ currentStatusFilter = "all" /\ currentNotifiedFilter = "all"

\* C21: the filter returns an order-preserving subsequence of currentRecords
\* and modifies no record; with the default filter state it returns every
\* record; applying the same filter to its own result returns that result.
C21_FilterSubsequence ==
  /\ [](IsSubsequence(filteredCurrentRecords, currentRecords))
  /\ [](DefaultFilters => filteredCurrentRecords = currentRecords)
  /\ [](FilterRecords(filteredCurrentRecords, currentSearch, currentStatusFilter,
                      currentNotifiedFilter) = filteredCurrentRecords)
  /\ [][currentRecords' = currentRecords]_vars

C21_Witness ==
  /\ currentNotifiedFilter = "no"
  /\ currentStatusFilter = "checked_out"
  /\ Len(currentRecords) = 2
  /\ currentRecords[1] # currentRecords[2]
  /\ filteredCurrentRecords = currentRecords

\* C22: whenever no date is selected, also after the user has returned to the
\* "Current Day" tab, historyRecords is empty.
C22_NoHistoryWithoutDate ==
  selectedDate = NULL => historyRecords = <<>>

(***************************************************************************)
(* Properties of downloadHistoryCsv, stated by reading the file back.      *)
(***************************************************************************)
Malformed == [ok |-> FALSE, records |-> <<>>]

\* Reads a field from behind its opening quote up to its closing quote; a
\* doubled quote stands for one quote.
RECURSIVE ReadField(_, _)
ReadField(text, field) ==
  IF text = <<>> THEN [ok |-> FALSE, field |-> <<>>, rest |-> <<>>]
  ELSE IF Head(text) # "\"" THEN ReadField(Tail(text), Append(field, Head(text)))
  ELSE IF Len(text) >= 2 /\ text[2] = "\""
       THEN ReadField(SubSeq(text, 3, Len(text)), Append(field, "\""))
  ELSE [ok |-> TRUE, field |-> field, rest |-> Tail(text)]

\* Reads the fields of a record: each in double quotes, a comma between two.
RECURSIVE ReadRecord(_, _)
ReadRecord(text, rec) ==
  IF text = <<>> \/ Head(text) # "\"" THEN [ok |-> FALSE, fields |-> <<>>, rest |-> <<>>]
  ELSE LET f == ReadField(Tail(text), <<>>)
       IN IF ~f.ok THEN [ok |-> FALSE, fields |-> <<>>, rest |-> <<>>]
          ELSE IF f.rest # <<>> /\ Head(f.rest) = ","
               THEN ReadRecord(Tail(f.rest), Append(rec, f.field))
          ELSE [ok |-> TRUE, fields |-> Append(rec, f.field), rest |-> f.rest]

\* Reads the records of a file: a line feed between two.
RECURSIVE ReadRecords(_, _)
ReadRecords(text, out) ==
  LET r == ReadRecord(text, <<>>)
  IN IF ~r.ok THEN Malformed
     ELSE IF r.rest = <<>> THEN [ok |-> TRUE, records |-> Append(out, r.fields)]
     ELSE IF Head(r.rest) = "\n" THEN ReadRecords(Tail(r.rest), Append(out, r.fields))
     ELSE Malformed

Read(text) == ReadRecords(text, <<>>)

\* The pieces of text between its line feeds.
LineFeeds(text) == {i \in 1..Len(text) : text[i] = "\n"}
FeedAt(text, k) ==
  CHOOSE i \in LineFeeds(text) : Cardinality({m \in LineFeeds(text) : m < i}) = k - 1
LinesOf(text) ==
  [k \in 1..(Cardinality(LineFeeds(text)) + 1) |->
     SubSeq(text,
            IF k = 1 THEN 1 ELSE FeedAt(text, k - 1) + 1,
            IF k = Cardinality(LineFeeds(text)) + 1 THEN Len(text)
            ELSE FeedAt(text, k) - 1)]

\* What the file must say about an optional value.
Writes(field, v) ==
  CASE v.t = "null" -> field = <<>>
    [] v.t = "string" -> field = v.str
    [] OTHER -> field # <<>> /\ field[1] # "0" /\ DecimalValue(field) = v.n

\* fields is the line of row: its seven values in the order of the header.
IsLineOf(fields, row) ==
  /\ Len(fields) = 7
  /\ fields[1] = row.student_name
  /\ fields[2] = StatusChars(row.status)
  /\ fields[3] = IF row.parent_notified THEN <<"t", "r", "u", "e">>
                 ELSE <<"f", "a", "l", "s", "e">>
  /\ Writes(fields[4], row.time_spent)
  /\ Writes(fields[5], row.checkin_time)
  /\ Writes(fields[6], row.checkout_time)
  /\ Writes(fields[7], row.date)

Downloaded == download.pc = "returned" /\ download.content # <<>>
NothingToDownload == selectedDate = NULL \/ historyRecords = <<>>
HasLineFeed(row) == \E k \in 1..Len(row.student_name) : row.student_name[k] = "\n"

\* C23 as stated: downloadHistoryCsv does nothing without a date or without
\* history records; otherwise the file has one header line and exactly one
\* line per history record, each line with exactly 7 quoted fields.
C23_OneLinePerRecord ==
  download.pc = "returned" =>
    IF NothingToDownload THEN download.content = <<>>
    ELSE LET lines == LinesOf(download.content)
         IN /\ Len(lines) = 1 + Len(historyRecords)
            /\ \A k \in 1..Len(lines) :
                 /\ Read(lines[k]).ok
                 /\ Len(Read(lines[k]).records) = 1
                 /\ Len(Read(lines[k]).records[1]) = 7

\* C23, amended: downloadHistoryCsv does nothing without a date or without
\* history records; otherwise the file reads back as the header followed by
\* one record per history record in list order, each of exactly 7 fields, every
\* field in double quotes with each embedded quote doubled and a null optional
\* field empty; it has exactly one line per record when no field holds a line
\* feed.
C23_OneRecordPerRow ==
  download.pc = "returned" =>
    IF NothingToDownload THEN download.content = <<>> /\ download.name = <<>>
    ELSE LET file == Read(download.content)
         IN /\ file.ok
            /\ Len(file.records) = 1 + Len(historyRecords)
            /\ file.records[1] = headers
            /\ \A k \in 1..Len(historyRecords) :
                 IsLineOf(file.records[k + 1], historyRecords[k])
            /\ (\A k \in 1..Len(historyRecords) : ~HasLineFeed(historyRecords[k]))
                 => Len(LinesOf(download.content)) = 1 + Len(historyRecords)

C23_Witness ==
  /\ Downloaded
  /\ selectedDate = "d1"
  /\ Len(historyRecords) = 2
  /\ historyRecords[1].student_name = <<"A", "\"", "B">>
  /\ historyRecords[2].time_spent = JsNumber(30)
  /\ historyRecords[2].checkin_time = JsNull
  /\ historyRecords[2].date # JsNull

====
